---- MODULE Spec2Model ----
(***************************************************************************)
(* Active participant resolver of pkg/staking/participants.go.             *)
(*                                                                         *)
(* The resolver keeps no state of its own.  The only shared mutable state  *)
(* it reads is the chain head, and it reads it at blockchain.Header()      *)
(* only.  Everything an operation does after a Header() read (gas limit    *)
(* calculation for the next number, BeginTxn at the parent's state root,   *)
(* Apply, decoding) depends on that parent alone, so the steps between two *)
(* Header() reads are one action.  Get(Sequencer) reads the head twice     *)
(* (lines 59 and 260) and is two actions, with the head free to advance in *)
(* between.                                                                *)
(***************************************************************************)
EXTENDS Integers, Sequences, FiniteSets, TLC

VARIABLES
    head,        \* blockchain.Header(): the last committed header
    contract,    \* staking contract storage under head.StateRoot
    pc,          \* position of the one operation in flight
    op,          \* the operation called
    argNodeType, \* nodeType argument of Get / Contains
    argAddr,     \* address argument of Contains / InProbation / GetBalance
    locals,      \* Get's locals live across the second Header() read
    ret,         \* the value returned to the caller
    err,         \* the error returned to the caller
    getRes,      \* Contains' locals `addrs, err := asq.Get(nodeType)`
    calcs,       \* history: block numbers given to CalculateGasLimit
    txns,        \* history: transitions opened with BeginTxn
    applied,     \* history: transactions given to Transition.Apply
    faults,      \* history: the steps that failed in this operation
    deposit      \* avail.DepositBalance: its position, locals and result

vars == <<head, contract, pc, op, argNodeType, argAddr, locals, ret, err,
          getRes, calcs, txns, applied, faults, deposit>>

-----------------------------------------------------------------------------
(* Bounds *)

MaxHead == 2     \* block numbers run from 1 to MaxHead
MaxLen == 2      \* longest participant list the contract returns (the lists
                 \* hold distinct addresses, so Addresses caps them as well)
MaxBufLen == 2   \* longest return buffer of the stake getters, in bytes
MaxEvents == 3   \* statuses a subscription delivers before its last one
MaxNonce == 1    \* largest nonce of the signer's account, and largest increment

-----------------------------------------------------------------------------
(* Addresses and their conversions *)

AddressLength == 20

Addr(b) == [i \in 1..AddressLength |-> IF i = AddressLength THEN b ELSE 0]

AddrA == Addr(161)
AddrB == Addr(178)

Addresses == {AddrA, AddrB}

\* types.BytesToAddress: the last AddressLength bytes, left-padded with zeros.
BytesToAddress(b) ==
    LET n == Len(b)
        cut == IF n > AddressLength THEN SubSeq(b, n - AddressLength + 1, n) ELSE b
        m == Len(cut)
    IN  [i \in 1..AddressLength |->
            IF i <= AddressLength - m THEN 0 ELSE cut[i - (AddressLength - m)]]

\* Address.Bytes(): the address as a byte slice.
Bytes(a) == [i \in 1..Len(a) |-> a[i]]

\* bytes.Equal
BytesEqual(x, y) ==
    /\ Len(x) = Len(y)
    /\ \A i \in 1..Len(x) : x[i] = y[i]

HexDigit == <<"0", "1", "2", "3", "4", "5", "6", "7",
              "8", "9", "a", "b", "c", "d", "e", "f">>

RECURSIVE HexEncode(_)
HexEncode(b) ==
    IF b = <<>> THEN <<>>
    ELSE <<HexDigit[(Head(b) \div 16) + 1], HexDigit[(Head(b) % 16) + 1]>>
         \o HexEncode(Tail(b))

\* Address.String(): "0x" and the hex digits of the bytes.  (The EIP-55 case
\* of the letters is a function of the same bytes and is left lower case.)
String(a) == <<"0", "x">> \o HexEncode(Bytes(a))

\* big.Int.SetBytes: the buffer read as a big-endian unsigned integer.
RECURSIVE SetBytesFrom(_, _)
SetBytesFrom(acc, buf) ==
    IF buf = <<>> THEN acc
    ELSE SetBytesFrom(acc * 256 + Head(buf), Tail(buf))

SetBytesLittleEndian(buf) ==
    LET RECURSIVE le(_)
        le(b) == IF b = <<>> THEN 0 ELSE Head(b) + 256 * le(Tail(b))
    IN  le(buf)

SetBytes(buf) == SetBytesFrom(0, buf)

-----------------------------------------------------------------------------
(* Values returned to the caller *)

NodeTypes == {"Sequencer", "WatchTower", "Validator"}

NilErr == [nil |-> TRUE, cause |-> "", context |-> {}]

\* An error: where it was raised and the role / method names its text carries.
Err(cause, context) == [nil |-> FALSE, cause |-> cause, context |-> context]

\* `return nil, err` of the resolver's own functions: the error is handed on
\* unchanged.
Propagate(e) == e

NilList == [nil |-> TRUE, val |-> <<>>]
List(l) == [nil |-> FALSE, val |-> l]
Bool(b) == [nil |-> FALSE, val |-> b]
NilAmount == [nil |-> TRUE, val |-> 0]
Amount(n) == [nil |-> FALSE, val |-> n]

-----------------------------------------------------------------------------
(* Chain head store and staking contract storage *)

\* The sequences of distinct elements of S of length at most n.
DistinctSeqs(S, n) ==
    {s \in UNION {[1..k -> S] : k \in 0..n} :
        \A i, j \in DOMAIN s : i # j => s[i] # s[j]}

Range(s) == {s[i] : i \in DOMAIN s}

\* What the contract can hold: lists of distinct addresses.
AddressLists == DistinctSeqs(Addresses, MaxLen)

Worlds == [sequencers : AddressLists, probation : AddressLists,
           watchtowers : AddressLists]

RECURSIVE BuffersOfLen(_)
BuffersOfLen(n) ==
    IF n = 0 THEN {<<>>}
    ELSE {<<b>> \o s : b \in {0, 1, 255}, s \in BuffersOfLen(n - 1)}

\* Return buffers of the stake getters.
Buffers == UNION {BuffersOfLen(n) : n \in 0..MaxBufLen}

\* The gas limit block `number` carries: the genesis limit, then the target.
BlockGasLimit(number) == IF number <= 1 THEN 5242880 ELSE 5248000

\* The header of committed block n.
Block(n) ==
    [Hash |-> <<"hash", n>>,
     Number |-> n,
     Miner |-> Bytes(IF n % 2 = 1 THEN AddrA ELSE AddrB),
     GasLimit |-> BlockGasLimit(n),
     StateRoot |-> <<"root", n>>]

\* blockchain.CalculateGasLimit(number): a function of the block number and the
\* headers before it; it fails when that history is missing.
CalculateGasLimit(number, fault) ==
    IF fault = "gasLimit"
    THEN [val |-> 0, err |-> Err("gasLimit", {})]
    ELSE [val |-> BlockGasLimit(number), err |-> NilErr]

\* executor.BeginTxn(root, header, from): a transition over the state stored
\* under root; it fails when that state is missing.
BeginTxn(root, header, from, state, fault) ==
    IF fault = "beginTxn"
    THEN [t |-> [root |-> root, header |-> header, from |-> from,
                 state |-> state],
          err |-> Err("beginTxn", {})]
    ELSE [t |-> [root |-> root, header |-> header, from |-> from,
                 state |-> state],
          err |-> NilErr]

-----------------------------------------------------------------------------
(* The transition context every operation builds *)

NewHeaderSameNumber(parent, miner) ==
    [ParentHash |-> parent.Hash,
     Number |-> parent.Number,
     Miner |-> Bytes(miner),
     Nonce |-> 0,
     GasLimit |-> parent.GasLimit]

\* header := &types.Header{...}.  Timestamp is the wall clock at the call and
\* reaches no query; it is left out.
NewHeader(parent, miner) ==
    [ParentHash |-> parent.Hash,
     Number |-> parent.Number + 1,
     Miner |-> Bytes(miner),
     Nonce |-> 0,
     GasLimit |-> parent.GasLimit]

\* From the header literal to the opened transition.  calcs and txns are what
\* was asked of the chain store and of the executor on the way.
OpenContext(parent, from, state, fault) ==
    LET header == NewHeader(parent, from)
        gas == CalculateGasLimit(header.Number, fault)
        begin == BeginTxn(parent.StateRoot, header, from, state, fault)
        asked == <<header.Number>>
        opened == <<[parent |-> parent, root |-> parent.StateRoot,
                     header |-> header, from |-> from]>>
    IN  IF ~gas.err.nil
        THEN [err |-> Propagate(gas.err), gasLimit |-> 0, t |-> begin.t,
              calcs |-> asked, txns |-> <<>>]
        ELSE IF ~begin.err.nil
        THEN [err |-> Propagate(begin.err), gasLimit |-> gas.val, t |-> begin.t,
              calcs |-> asked, txns |-> opened]
        ELSE [err |-> NilErr, gasLimit |-> gas.val, t |-> begin.t,
              calcs |-> asked, txns |-> opened]

-----------------------------------------------------------------------------
(* Contract queries *)

\* What the staking contract returns for a list getter at the state of t.
Stored(state, name) ==
    CASE name = "GetCurrentSequencers" -> state.sequencers
      [] name = "GetCurrentSequencersInProbation" -> state.probation
      [] name = "GetCurrentWatchtowers" -> state.watchtowers

NoReturnValue == [shape |-> "none", addrs |-> <<>>, bytes |-> <<>>]

\* Transition.Apply(tx): an engine error, a failed result carrying res.Err, or
\* a result carrying the return buffer.
Apply(t, tx, fault, returnValue) ==
    IF fault = "engine"
    THEN [err |-> Err("engine", {}), Err |-> NilErr, ReturnValue |-> NoReturnValue]
    ELSE IF fault = "revert"
    THEN [err |-> NilErr, Err |-> Err("revert", {}), ReturnValue |-> NoReturnValue]
    ELSE [err |-> NilErr, Err |-> NilErr, ReturnValue |-> returnValue]

\* ExecutionResult.Failed()
Failed(res) == ~res.Err.nil

\* The synthetic read call.  Input is the selector, here the method's name,
\* followed by the encoded arguments.  Nonce is t.GetNonce(from), a value of
\* the state no query reads; it is left out.
Transaction(from, input, gasLimit) ==
    [From |-> from, To |-> "AddrStakingContract", Value |-> 0, Input |-> input,
     GasPrice |-> 0, Gas |-> gasLimit]

\* One entry of the history of applied transactions.
Applied(t, tx, res) ==
    <<[tx |-> tx, root |-> t.root, header |-> t.header,
       returned |-> res.ReturnValue]>>

DecodeParticipants(returnValue) ==
    IF returnValue.shape = "decode"
    THEN [val |-> NilList, err |-> Err("decode", {})]
    ELSE IF returnValue.shape = "notMap"
    THEN [val |-> NilList, err |-> Err("notMap", {})]
    ELSE IF returnValue.shape = "notAddressList"
    THEN [val |-> NilList, err |-> Err("notAddressList", {})]
    ELSE LET web3Addresses == returnValue.addrs
         IN  [val |-> List([idx \in 1..Len(web3Addresses) |-> web3Addresses[idx]]),
              err |-> NilErr]

\* The body the four list queries share: method lookup, Apply, the two error
\* returns, DecodeParticipants.
QueryAddresses(name, t, gasLimit, from, fault) ==
    IF fault = "noMethod"
    THEN [val |-> NilList, err |-> Err("noMethod", {name}), applied |-> <<>>]
    ELSE LET tx == Transaction(from, <<name>>, gasLimit)
             buffer == [shape |-> IF fault \in {"decode", "notMap", "notAddressList"}
                                  THEN fault ELSE "addressList",
                        addrs |-> Stored(t.state, name),
                        bytes |-> <<>>]
             res == Apply(t, tx, fault, buffer)
             decoded == DecodeParticipants(res.ReturnValue)
         IN  IF ~res.err.nil
             THEN [val |-> NilList, err |-> Propagate(res.err),
                   applied |-> Applied(t, tx, res)]
             ELSE IF Failed(res)
             THEN [val |-> NilList, err |-> Propagate(res.Err),
                   applied |-> Applied(t, tx, res)]
             ELSE [val |-> decoded.val, err |-> decoded.err,
                   applied |-> Applied(t, tx, res)]

QuerySequencers(t, gasLimit, from, fault) ==
    QueryAddresses("GetCurrentSequencers", t, gasLimit, from, fault)

QuerySequencersInProbation(t, gasLimit, from, fault) ==
    QueryAddresses("GetCurrentSequencersInProbation", t, gasLimit, from, fault)

\* QueryWatchtower with the probation filter of the sequencers applied.
QueryWatchtowerNotProbated(t, gasLimit, from, fault) ==
    LET q == QueryAddresses("GetCurrentWatchtowers", t, gasLimit, from, fault)
        NotProbated(a) == \A i \in DOMAIN t.state.probation : t.state.probation[i] # a
    IN  IF q.err.nil
        THEN [q EXCEPT !.val = List(SelectSeq(q.val.val, NotProbated))]
        ELSE q

QueryWatchtower(t, gasLimit, from, fault) ==
    QueryAddresses("GetCurrentWatchtowers", t, gasLimit, from, fault)

\* The stake getters: the return buffer goes to SetBytes undecoded.
QueryAmount(name, args, t, gasLimit, from, fault, buf) ==
    IF fault = "noMethod"
    THEN [val |-> NilAmount, err |-> Err("noMethod", {name}), applied |-> <<>>]
    ELSE IF fault = "encode"
    THEN [val |-> NilAmount, err |-> Err("encode", {}), applied |-> <<>>]
    ELSE LET tx == Transaction(from, <<name>> \o args, gasLimit)
             buffer == [shape |-> "bytes", addrs |-> <<>>, bytes |-> buf]
             res == Apply(t, tx, fault, buffer)
         IN  IF ~res.err.nil
             THEN [val |-> NilAmount, err |-> Propagate(res.err),
                   applied |-> Applied(t, tx, res)]
             ELSE IF Failed(res)
             THEN [val |-> NilAmount, err |-> Propagate(res.Err),
                   applied |-> Applied(t, tx, res)]
             ELSE [val |-> Amount(SetBytes(res.ReturnValue.bytes)), err |-> NilErr,
                   applied |-> Applied(t, tx, res)]

QueryParticipantBalance(t, gasLimit, from, addr, fault, buf) ==
    QueryAmount("GetCurrentAccountStakedAmount", <<Bytes(addr)>>, t, gasLimit,
                from, fault, buf)

QueryParticipantTotalStakedAmount(t, gasLimit, from, fault, buf) ==
    QueryAmount("GetCurrentStakedAmount", <<>>, t, gasLimit, from, fault, buf)

-----------------------------------------------------------------------------
(* Probation exclusion *)

\* The inner loop of mainLoop: does addr equal, as a string, a probated address?
RECURSIVE InProbationSet(_, _)
InProbationSet(addr, probationAddrs) ==
    IF probationAddrs = <<>> THEN FALSE
    ELSE IF String(addr) = String(Head(probationAddrs)) THEN TRUE
    ELSE InProbationSet(addr, Tail(probationAddrs))

\* mainLoop with a plain `continue`: the inner loop goes on and the address is
\* appended all the same.
MainLoopUnlabelled(toReturn, addrs, probationAddrs) == toReturn \o addrs

\* mainLoop: toReturn collects, in order, the addrs that are not probated.
RECURSIVE MainLoop(_, _, _)
MainLoop(toReturn, addrs, probationAddrs) ==
    IF addrs = <<>> THEN toReturn
    ELSE IF InProbationSet(Head(addrs), probationAddrs)
    THEN MainLoop(toReturn, Tail(addrs), probationAddrs)
    ELSE MainLoop(Append(toReturn, Head(addrs)), Tail(addrs), probationAddrs)

\* QueryActiveSequencers up to the second Header() read.
QueryActiveSequencersRoleSet(t, gasLimit, from, fault) ==
    LET q == QuerySequencers(t, gasLimit, from, fault)
    IN  [addrs |-> q.val, err |-> Propagate(q.err), applied |-> q.applied]

\* QueryActiveSequencers falling back to the unfiltered role set when the
\* probation query fails.
QueryActiveSequencersProbationFallback(addrs, from, parent, state, fault) ==
    LET ctx == OpenContext(parent, from, state, fault)
        q == QuerySequencersInProbation(ctx.t, ctx.gasLimit, from, fault)
    IN  IF ~ctx.err.nil
        THEN [val |-> NilList, err |-> Propagate(ctx.err),
              calcs |-> ctx.calcs, txns |-> ctx.txns, applied |-> <<>>]
        ELSE IF ~q.err.nil
        THEN [val |-> List(addrs), err |-> NilErr,
              calcs |-> ctx.calcs, txns |-> ctx.txns, applied |-> q.applied]
        ELSE [val |-> List(MainLoop(<<>>, addrs, q.val.val)), err |-> NilErr,
              calcs |-> ctx.calcs, txns |-> ctx.txns, applied |-> q.applied]

\* QueryActiveSequencers from the second Header() read on: parent is the head
\* as read there.
QueryActiveSequencersProbation(addrs, from, parent, state, fault) ==
    LET ctx == OpenContext(parent, from, state, fault)
        q == QuerySequencersInProbation(ctx.t, ctx.gasLimit, from, fault)
    IN  IF ~ctx.err.nil
        THEN [val |-> NilList, err |-> Propagate(ctx.err),
              calcs |-> ctx.calcs, txns |-> ctx.txns, applied |-> <<>>]
        ELSE IF ~q.err.nil
        THEN [val |-> NilList, err |-> Propagate(q.err),
              calcs |-> ctx.calcs, txns |-> ctx.txns, applied |-> q.applied]
        ELSE [val |-> List(MainLoop(<<>>, addrs, q.val.val)), err |-> NilErr,
              calcs |-> ctx.calcs, txns |-> ctx.txns, applied |-> q.applied]

-----------------------------------------------------------------------------
(* The five operations *)

NoLocals == [addrs |-> <<>>, from |-> <<>>]

CtxFaults == {"gasLimit", "beginTxn"}
ListFaults == {"noMethod", "engine", "revert", "decode", "notMap", "notAddressList"}
AmountFaults == {"noMethod", "engine", "revert"}

\* Get up to its return or, for Sequencer, up to the second Header() read.
\* parent is the head as read at entry.
GetSteps(nodeType, parent, state, fault) ==
    LET minerAddress == BytesToAddress(parent.Miner)
        ctx == OpenContext(parent, minerAddress, state, fault)
        role == QueryActiveSequencersRoleSet(ctx.t, ctx.gasLimit, minerAddress, fault)
        towers == QueryWatchtower(ctx.t, ctx.gasLimit, minerAddress, fault)
    IN  IF ~ctx.err.nil
        THEN [pc |-> "done", val |-> NilList, err |-> Propagate(ctx.err),
              locals |-> NoLocals,
              calcs |-> ctx.calcs, txns |-> ctx.txns, applied |-> <<>>]
        ELSE IF nodeType = "Sequencer"
        THEN IF ~role.err.nil
             THEN [pc |-> "done", val |-> NilList, err |-> Propagate(role.err),
                   locals |-> NoLocals,
                   calcs |-> ctx.calcs, txns |-> ctx.txns, applied |-> role.applied]
             ELSE [pc |-> "probation", val |-> NilList, err |-> NilErr,
                   locals |-> [addrs |-> role.addrs.val, from |-> minerAddress],
                   calcs |-> ctx.calcs, txns |-> ctx.txns, applied |-> role.applied]
        ELSE IF nodeType = "WatchTower"
        THEN IF ~towers.err.nil
             THEN [pc |-> "done", val |-> NilList, err |-> Propagate(towers.err),
                   locals |-> NoLocals,
                   calcs |-> ctx.calcs, txns |-> ctx.txns, applied |-> towers.applied]
             ELSE [pc |-> "done", val |-> towers.val, err |-> NilErr,
                   locals |-> NoLocals,
                   calcs |-> ctx.calcs, txns |-> ctx.txns, applied |-> towers.applied]
        ELSE [pc |-> "done", val |-> NilList, err |-> Err("nodeType", {nodeType}),
              locals |-> NoLocals,
              calcs |-> ctx.calcs, txns |-> ctx.txns, applied |-> <<>>]

\* Get's Sequencer case after QueryActiveSequencers has returned.
GetSequencerReturn(r) ==
    IF ~r.err.nil THEN [val |-> NilList, err |-> Propagate(r.err)]
    ELSE [val |-> r.val, err |-> NilErr]

\* Contains' loop returning false as soon as the first element differs.
ContainsLoopFirstOnly(addrs, addr) == addrs # <<>> /\ Head(addrs) = addr

\* Contains' loop: `a == addr` on the address arrays.
RECURSIVE ContainsLoop(_, _)
ContainsLoop(addrs, addr) ==
    IF addrs = <<>> THEN FALSE
    ELSE IF Head(addrs) = addr THEN TRUE
    ELSE ContainsLoop(Tail(addrs), addr)

\* Contains after Get has returned `got`.
ContainsReturn(got, addr) ==
    IF ~got.err.nil THEN [val |-> Bool(FALSE), err |-> Propagate(got.err)]
    ELSE [val |-> Bool(ContainsLoop(got.val.val, addr)), err |-> NilErr]

\* InProbation's loop returning false as soon as the first element differs.
InProbationLoopFirstOnly(probationAddrs, address) ==
    probationAddrs # <<>> /\ BytesEqual(Bytes(Head(probationAddrs)), Bytes(address))

\* InProbation's loop: bytes.Equal on the byte slices.
RECURSIVE InProbationLoop(_, _)
InProbationLoop(probationAddrs, address) ==
    IF probationAddrs = <<>> THEN FALSE
    ELSE IF BytesEqual(Bytes(Head(probationAddrs)), Bytes(address)) THEN TRUE
    ELSE InProbationLoop(Tail(probationAddrs), address)

InProbationSteps(address, parent, state, fault) ==
    LET minerAddress == BytesToAddress(parent.Miner)
        ctx == OpenContext(parent, minerAddress, state, fault)
        q == QuerySequencersInProbation(ctx.t, ctx.gasLimit, minerAddress, fault)
    IN  IF ~ctx.err.nil
        THEN [val |-> Bool(FALSE), err |-> Propagate(ctx.err),
              calcs |-> ctx.calcs, txns |-> ctx.txns, applied |-> <<>>]
        ELSE IF ~q.err.nil
        THEN [val |-> Bool(FALSE), err |-> Propagate(q.err),
              calcs |-> ctx.calcs, txns |-> ctx.txns, applied |-> q.applied]
        ELSE [val |-> Bool(InProbationLoop(q.val.val, address)), err |-> NilErr,
              calcs |-> ctx.calcs, txns |-> ctx.txns, applied |-> q.applied]

GetBalanceSteps(address, parent, state, fault, buf) ==
    LET minerAddress == BytesToAddress(parent.Miner)
        ctx == OpenContext(parent, minerAddress, state, fault)
        q == QueryParticipantBalance(ctx.t, ctx.gasLimit, minerAddress, address,
                                     fault, buf)
    IN  IF ~ctx.err.nil
        THEN [val |-> NilAmount, err |-> Propagate(ctx.err),
              calcs |-> ctx.calcs, txns |-> ctx.txns, applied |-> <<>>]
        ELSE IF ~q.err.nil
        THEN [val |-> NilAmount, err |-> Propagate(q.err),
              calcs |-> ctx.calcs, txns |-> ctx.txns, applied |-> q.applied]
        ELSE [val |-> q.val, err |-> NilErr,
              calcs |-> ctx.calcs, txns |-> ctx.txns, applied |-> q.applied]

GetTotalStakedAmountSteps(parent, state, fault, buf) ==
    LET minerAddress == BytesToAddress(parent.Miner)
        ctx == OpenContext(parent, minerAddress, state, fault)
        q == QueryParticipantTotalStakedAmount(ctx.t, ctx.gasLimit, minerAddress,
                                               fault, buf)
    IN  IF ~ctx.err.nil
        THEN [val |-> NilAmount, err |-> Propagate(ctx.err),
              calcs |-> ctx.calcs, txns |-> ctx.txns, applied |-> <<>>]
        ELSE IF ~q.err.nil
        THEN [val |-> NilAmount, err |-> Propagate(q.err),
              calcs |-> ctx.calcs, txns |-> ctx.txns, applied |-> q.applied]
        ELSE [val |-> q.val, err |-> NilErr,
              calcs |-> ctx.calcs, txns |-> ctx.txns, applied |-> q.applied]

-----------------------------------------------------------------------------
(* avail.DepositBalance *)

\* The statuses an extrinsic subscription delivers; each has one flag set.
Statuses == {"Future", "Ready", "Broadcast", "InBlock", "Retracted",
             "FinalityTimeout", "Finalized", "Usurped", "Dropped", "Invalid"}

\* The steps before the subscription that can fail, in the order of the code.
DepositFaults == {"metadata", "newCall", "blockHash", "runtimeVersion",
                  "storageKey", "storage", "sign", "submit"}

NoExtrinsic == [call |-> <<>>, signer |-> "", nonce |-> 0, signed |-> FALSE]

\* Before DepositBalance is called.
NoDeposit ==
    [pc |-> "idle", ext |-> NoExtrinsic, submitted |-> FALSE,
     unsubscribed |-> FALSE, events |-> <<>>, err |-> NilErr]

\* nonce := uint64(accountInfo.Nonce); if nonceIncrement > 0 { nonce += ... }
DepositNonce(accountNonce, nonceIncrement) ==
    IF nonceIncrement > 0 THEN accountNonce + nonceIncrement ELSE accountNonce

\* `if err != nil || !ok { return err }` after GetStorageLatest: the error
\* returned is err, whichever of the two conditions held.
StorageReturn(ok, e) == Propagate(e)

\* DepositBalance from its entry to the subscription: where it stands then, the
\* extrinsic as far as it was built, and the error it returns if it returns.
\* found is the ok of GetStorageLatest.
DepositSteps(account, amount, nonceIncrement, accountNonce, found, fault) ==
    LET c == <<"Balances.transfer", account, amount>>
        ext == [call |-> c, signer |-> "", nonce |-> 0, signed |-> FALSE]
        signedExt == [call |-> c, signer |-> "Alice",
                      nonce |-> DepositNonce(accountNonce, nonceIncrement),
                      signed |-> TRUE]
        Returns(x, e) == [pc |-> "done", ext |-> x, submitted |-> FALSE,
                          unsubscribed |-> FALSE, events |-> <<>>, err |-> e]
    IN  IF fault = "metadata" THEN Returns(NoExtrinsic, Propagate(Err(fault, {})))
        ELSE IF fault = "newCall" THEN Returns(NoExtrinsic, Propagate(Err(fault, {})))
        ELSE IF fault = "blockHash" THEN Returns(ext, Propagate(Err(fault, {})))
        ELSE IF fault = "runtimeVersion" THEN Returns(ext, Propagate(Err(fault, {})))
        ELSE IF fault = "storageKey" THEN Returns(ext, Propagate(Err(fault, {})))
        ELSE IF fault = "storage" THEN Returns(ext, StorageReturn(FALSE, Err(fault, {})))
        ELSE IF ~found THEN Returns(ext, StorageReturn(found, NilErr))
        ELSE IF fault = "sign" THEN Returns(ext, Propagate(Err(fault, {})))
        ELSE IF fault = "submit" THEN Returns(signedExt, Propagate(Err(fault, {})))
        ELSE [pc |-> "waiting", ext |-> signedExt, submitted |-> TRUE,
              unsubscribed |-> FALSE, events |-> <<>>, err |-> NilErr]

\* The switch on a status received from sub.Chan().
DepositOnStatus(d, status) ==
    IF status = "Finalized"
    THEN [d EXCEPT !.pc = "done", !.unsubscribed = TRUE,
                   !.events = Append(@, status), !.err = NilErr]
    ELSE IF status = "InBlock"
    THEN [d EXCEPT !.pc = "done", !.unsubscribed = TRUE,
                   !.events = Append(@, status), !.err = NilErr]
    ELSE IF status = "Dropped" \/ status = "Invalid"
    THEN [d EXCEPT !.pc = "done", !.unsubscribed = TRUE,
                   !.events = Append(@, status),
                   !.err = Err("status", {status})]
    ELSE [d EXCEPT !.events = Append(@, status)]

-----------------------------------------------------------------------------
(* The state machine *)

NoGet == [val |-> NilList, err |-> NilErr]

Noted(fault) == IF fault = "none" THEN <<>> ELSE <<fault>>

Init ==
    /\ head = Block(1)
    /\ contract \in Worlds
    /\ pc = "idle"
    /\ op = "none"
    /\ argNodeType = "none"
    /\ argAddr = <<>>
    /\ locals = NoLocals
    /\ ret = NilList
    /\ err = NilErr
    /\ getRes = NoGet
    /\ calcs = <<>>
    /\ txns = <<>>
    /\ applied = <<>>
    /\ faults = <<>>
    /\ deposit = NoDeposit

\* A block is committed: the head moves on and the contract storage under the
\* new state root is whatever the block's transactions left.  An operation that
\* has returned reads the head no more, so the head moves again after Return.
AdvanceHead ==
    /\ pc # "done"
    /\ head.Number < MaxHead
    /\ head' = Block(head.Number + 1)
    /\ contract' \in Worlds
    /\ UNCHANGED <<pc, op, argNodeType, argAddr, locals, ret, err, getRes, deposit,
                   calcs, txns, applied, faults>>

Get(nodeType) ==
    /\ pc = "idle"
    /\ \E fault \in {"none"} \cup CtxFaults \cup
                    (IF nodeType \in {"Sequencer", "WatchTower"}
                     THEN ListFaults ELSE {}) :
          LET r == GetSteps(nodeType, head, contract, fault)
          IN  /\ pc' = r.pc
              /\ op' = "Get"
              /\ argNodeType' = nodeType
              /\ locals' = r.locals
              /\ ret' = r.val
              /\ err' = r.err
              /\ calcs' = r.calcs
              /\ txns' = r.txns
              /\ applied' = r.applied
              /\ faults' = Noted(fault)
    /\ UNCHANGED <<head, contract, argAddr, getRes, deposit>>

Contains(addr, nodeType) ==
    /\ pc = "idle"
    /\ \E fault \in {"none"} \cup CtxFaults \cup
                    (IF nodeType \in {"Sequencer", "WatchTower"}
                     THEN ListFaults ELSE {}) :
          LET r == GetSteps(nodeType, head, contract, fault)
              got == [val |-> r.val, err |-> r.err]
              out == ContainsReturn(got, addr)
          IN  /\ pc' = r.pc
              /\ op' = "Contains"
              /\ argNodeType' = nodeType
              /\ argAddr' = addr
              /\ locals' = r.locals
              /\ getRes' = IF r.pc = "done" THEN got ELSE NoGet
              /\ ret' = IF r.pc = "done" THEN out.val ELSE Bool(FALSE)
              /\ err' = IF r.pc = "done" THEN out.err ELSE NilErr
              /\ calcs' = r.calcs
              /\ txns' = r.txns
              /\ applied' = r.applied
              /\ faults' = Noted(fault)
    /\ UNCHANGED <<head, contract, deposit>>

\* Get(Sequencer), alone or inside Contains, from the second Header() read to
\* the return.
SequencerProbation ==
    /\ pc = "probation"
    /\ \E fault \in {"none"} \cup CtxFaults \cup ListFaults :
          LET r == QueryActiveSequencersProbation(locals.addrs, locals.from,
                                                  head, contract, fault)
              got == GetSequencerReturn(r)
              out == ContainsReturn(got, argAddr)
          IN  /\ pc' = "done"
              /\ locals' = NoLocals
              /\ getRes' = IF op = "Contains" THEN got ELSE NoGet
              /\ ret' = IF op = "Contains" THEN out.val ELSE got.val
              /\ err' = IF op = "Contains" THEN out.err ELSE got.err
              /\ calcs' = calcs \o r.calcs
              /\ txns' = txns \o r.txns
              /\ applied' = applied \o r.applied
              /\ faults' = faults \o Noted(fault)
    /\ UNCHANGED <<head, contract, op, argNodeType, argAddr, deposit>>

InProbation(address) ==
    /\ pc = "idle"
    /\ \E fault \in {"none"} \cup CtxFaults \cup ListFaults :
          LET r == InProbationSteps(address, head, contract, fault)
          IN  /\ ret' = r.val
              /\ err' = r.err
              /\ calcs' = r.calcs
              /\ txns' = r.txns
              /\ applied' = r.applied
              /\ faults' = Noted(fault)
    /\ pc' = "done"
    /\ op' = "InProbation"
    /\ argAddr' = address
    /\ UNCHANGED <<head, contract, argNodeType, locals, getRes, deposit>>

GetBalance(address) ==
    /\ pc = "idle"
    /\ \E fault \in {"none", "encode"} \cup CtxFaults \cup AmountFaults,
          buf \in Buffers :
          LET r == GetBalanceSteps(address, head, contract, fault, buf)
          IN  /\ ret' = r.val
              /\ err' = r.err
              /\ calcs' = r.calcs
              /\ txns' = r.txns
              /\ applied' = r.applied
              /\ faults' = Noted(fault)
    /\ pc' = "done"
    /\ op' = "GetBalance"
    /\ argAddr' = address
    /\ UNCHANGED <<head, contract, argNodeType, locals, getRes, deposit>>

GetTotalStakedAmount ==
    /\ pc = "idle"
    /\ \E fault \in {"none"} \cup CtxFaults \cup AmountFaults,
          buf \in Buffers :
          LET r == GetTotalStakedAmountSteps(head, contract, fault, buf)
          IN  /\ ret' = r.val
              /\ err' = r.err
              /\ calcs' = r.calcs
              /\ txns' = r.txns
              /\ applied' = r.applied
              /\ faults' = Noted(fault)
    /\ pc' = "done"
    /\ op' = "GetTotalStakedAmount"
    /\ UNCHANGED <<head, contract, argNodeType, argAddr, locals, getRes, deposit>>

\* The caller takes the result; the next operation can be called.
Return ==
    /\ pc = "done"
    /\ pc' = "idle"
    /\ op' = "none"
    /\ argNodeType' = "none"
    /\ argAddr' = <<>>
    /\ locals' = NoLocals
    /\ ret' = NilList
    /\ err' = NilErr
    /\ getRes' = NoGet
    /\ calcs' = <<>>
    /\ txns' = <<>>
    /\ applied' = <<>>
    /\ faults' = <<>>
    /\ UNCHANGED <<head, contract, deposit>>

Next ==
    \/ AdvanceHead
    \/ \E nodeType \in NodeTypes : Get(nodeType)
    \/ \E addr \in Addresses, nodeType \in NodeTypes : Contains(addr, nodeType)
    \/ SequencerProbation
    \/ \E address \in Addresses : InProbation(address)
    \/ \E address \in Addresses : GetBalance(address)
    \/ GetTotalStakedAmount
    \/ Return

Spec == Init /\ [][Next]_vars

-----------------------------------------------------------------------------
(* Properties *)

Done == pc = "done"

\* The head has not moved since the operation read it.
FixedHead == \A i \in DOMAIN txns : txns[i].parent.Hash = head.Hash

\* The lists the contract returned to this operation's queries.
RoleSet == applied[1].returned.addrs
ProbationSet == applied[2].returned.addrs

\* The subsequence of R whose elements are not elements of P.
Difference(R, P) ==
    LET Kept(a) == a \notin Range(P)
    IN  SelectSeq(R, Kept)

GetSequencerSucceeded ==
    /\ Done
    /\ op = "Get"
    /\ argNodeType = "Sequencer"
    /\ err.nil

\* C1: a successful Get(Sequencer) returns exactly the subsequence of the role
\* set R returned by GetCurrentSequencers whose elements are not in the set P
\* returned by GetCurrentSequencersInProbation, in R's order.
C1_ProbationExclusion ==
    GetSequencerSucceeded =>
        /\ ~ret.nil
        /\ ret.val = Difference(RoleSet, ProbationSet)

C1_Witness ==
    /\ GetSequencerSucceeded
    /\ Len(RoleSet) = 2
    /\ ProbationSet = <<RoleSet[1]>>
    /\ ret.val = <<RoleSet[2]>>

\* C2: within one Get(Sequencer) the role-set transition and the probation-set
\* transition have the same parent: one head, one state root, one header, one
\* gas limit, one miner.
C2_SameParent ==
    (op = "Get" /\ argNodeType = "Sequencer" /\ Len(txns) = 2) =>
        /\ txns[1].parent = txns[2].parent
        /\ txns[1].root = txns[2].root
        /\ txns[1].header = txns[2].header
        /\ (Len(applied) = 2 => applied[1].tx.Gas = applied[2].tx.Gas)

ZeroValue ==
    CASE op \in {"Get"} -> NilList
      [] op \in {"Contains", "InProbation"} -> Bool(FALSE)
      [] op \in {"GetBalance", "GetTotalStakedAmount"} -> NilAmount

\* C3: an operation in which a step failed returns a non-nil error and the
\* zero value (nil list, nil amount, false); Get(Sequencer) whose probation
\* query failed returns an error, not the role set; an empty list is returned
\* with success only when the contract returned none or all were probated.
C3_FailureYieldsError ==
    Done =>
        /\ (faults # <<>> => ~err.nil)
        /\ (~err.nil => ret = ZeroValue)
        /\ (GetSequencerSucceeded /\ ret.val = <<>> =>
                Range(RoleSet) \subseteq Range(ProbationSet))
        /\ (op = "Get" /\ argNodeType = "WatchTower" /\ err.nil /\ ret.val = <<>> =>
                applied[1].returned.addrs = <<>>)

C3_Witness ==
    /\ Done
    /\ op = "Get"
    /\ argNodeType = "Sequencer"
    /\ Len(applied) = 2
    /\ applied[1].returned.shape = "addressList"
    /\ RoleSet # <<>>
    /\ faults = <<"revert">>
    /\ ~err.nil
    /\ ret.nil

\* C4: Get with a node type other than Sequencer and WatchTower returns the
\* node-type error and calculates no gas limit, opens no transition and
\* applies no call.
C4_NoWorkForUnsupportedNodeType ==
    (Done /\ op = "Get" /\ argNodeType \notin {"Sequencer", "WatchTower"}) =>
        /\ err.cause = "nodeType"
        /\ calcs = <<>>
        /\ txns = <<>>
        /\ applied = <<>>

\* What Get(nodeType) returns at the head when no step fails.
GetAtHead(nodeType) ==
    LET g == GetSteps(nodeType, head, contract, "none")
    IN  IF g.pc = "done" THEN g.val
        ELSE GetSequencerReturn(
                 QueryActiveSequencersProbation(g.locals.addrs, g.locals.from,
                                                head, contract, "none")).val

ContainsDone ==
    /\ Done
    /\ op = "Contains"
    /\ argNodeType \in {"Sequencer", "WatchTower"}

\* C5: Contains(a, r) returns an error exactly when its Get(r) does; otherwise
\* it returns whether a is an element of the list Get(r) returned, which at a
\* fixed head is the list Get(r) returns at that head.
C5_ContainsIsMembership ==
    ContainsDone =>
        /\ (err.nil <=> getRes.err.nil)
        /\ (err.nil => ret = Bool(argAddr \in Range(getRes.val.val)))
        /\ (err.nil /\ FixedHead =>
                ret = Bool(argAddr \in Range(GetAtHead(argNodeType).val)))

C5_Witness ==
    /\ ContainsDone
    /\ argNodeType = "Sequencer"
    /\ FixedHead
    /\ err.nil
    /\ Len(getRes.val.val) = 2
    /\ argAddr = getRes.val.val[2]
    /\ ret = Bool(TRUE)

\* C6: Get(WatchTower) applies the GetCurrentWatchtowers call alone and
\* returns its list as it is, whatever the probation set holds.
C6_WatchtowersUnfiltered ==
    (Done /\ op = "Get" /\ argNodeType = "WatchTower") =>
        /\ Len(txns) <= 1
        /\ Len(applied) <= 1
        /\ \A i \in DOMAIN applied : applied[i].tx.Input = <<"GetCurrentWatchtowers">>
        /\ (err.nil =>
                /\ ret = List(applied[1].returned.addrs)
                /\ ret.val = contract.watchtowers)

C6_Witness ==
    /\ Done
    /\ op = "Get"
    /\ argNodeType = "WatchTower"
    /\ err.nil
    /\ Len(ret.val) = 2
    /\ Range(ret.val) \cap Range(contract.probation) # {}

\* What InProbation(a) returns at the head when no step fails.
InProbationAtHead(a) == InProbationSteps(a, head, contract, "none").val.val

\* C7: InProbation(a) is true exactly when a is in the list
\* GetCurrentSequencersInProbation returned, whatever the role sets hold; and
\* at a fixed head no address in probation is in Get(Sequencer), and
\* Contains(a, Sequencer) is false for it.
C7_InProbationIsMembership ==
    /\ (Done /\ op = "InProbation" /\ err.nil =>
            /\ ret = Bool(argAddr \in Range(applied[1].returned.addrs))
            /\ ret = Bool(argAddr \in Range(contract.probation)))
    /\ (GetSequencerSucceeded /\ FixedHead =>
            \A a \in Addresses : InProbationAtHead(a) => a \notin Range(ret.val))
    /\ (ContainsDone /\ argNodeType = "Sequencer" /\ err.nil /\ FixedHead
        /\ InProbationAtHead(argAddr) => ret = Bool(FALSE))

C7_Witness ==
    /\ Done
    /\ op = "InProbation"
    /\ err.nil
    /\ ret = Bool(TRUE)
    /\ Len(contract.probation) = 2
    /\ argAddr = contract.probation[2]
    /\ argAddr \notin Range(contract.sequencers) \cup Range(contract.watchtowers)

RECURSIVE Power256(_)
Power256(n) == IF n = 0 THEN 1 ELSE 256 * Power256(n - 1)

RECURSIVE WeightedSum(_, _)
WeightedSum(buf, i) ==
    IF i > Len(buf) THEN 0
    ELSE buf[i] * Power256(Len(buf) - i) + WeightedSum(buf, i + 1)

\* The integer a buffer encodes big-endian.
BigEndianValue(buf) == WeightedSum(buf, 1)

AmountSucceeded ==
    /\ Done
    /\ op \in {"GetBalance", "GetTotalStakedAmount"}
    /\ err.nil

\* C8: a successful GetBalance or GetTotalStakedAmount returns the integer
\* its return buffer encodes big-endian; an empty or all-zero buffer gives
\* zero, not an error and not nil.
C8_AmountIsBigEndian ==
    AmountSucceeded =>
        /\ ~ret.nil
        /\ ret.val = BigEndianValue(applied[1].returned.bytes)

C8_Witness ==
    /\ AmountSucceeded
    /\ op = "GetBalance"
    /\ applied[1].returned.bytes = <<1, 255>>
    /\ ret.val = 511

\* The role and the contract methods an operation queries.
Queried ==
    CASE op \in {"Get", "Contains"} ->
            {argNodeType, "GetCurrentSequencers", "GetCurrentSequencersInProbation",
             "GetCurrentWatchtowers"}
      [] op = "InProbation" -> {"GetCurrentSequencersInProbation"}
      [] op = "GetBalance" -> {"GetCurrentAccountStakedAmount"}
      [] op = "GetTotalStakedAmount" -> {"GetCurrentStakedAmount"}

\* C9: every error an operation returns carries the role or the method that
\* was being queried.
C9_ErrorsCarryContext ==
    (Done /\ ~err.nil) => err.context \cap Queried # {}

\* C10 as stated: every transition is opened at the state root of the head read
\* for it, with a header whose parent hash, number and miner come from that
\* head, whose nonce is zero and whose gas limit is the calculator's value for
\* its number, which is also the gas of the read call.
C10_HeaderGasLimitFromCalculator ==
    /\ \A i \in DOMAIN txns :
          LET x == txns[i]
          IN  /\ x.header.ParentHash = x.parent.Hash
              /\ x.header.Number = x.parent.Number + 1
              /\ x.header.Miner = x.parent.Miner
              /\ x.header.Nonce = 0
              /\ x.header.GasLimit = CalculateGasLimit(x.header.Number, "none").val
              /\ x.root = x.parent.StateRoot
    /\ \A j \in DOMAIN applied : applied[j].tx.Gas = applied[j].header.GasLimit

\* C10 as the code has it: the header's gas limit is the parent's, the miner is
\* the miner of the head read at entry, and the calculator's value for the
\* header's number is the gas of the read call only.
C10_HeaderInheritsGasLimit ==
    /\ Len(calcs) >= Len(txns)
    /\ \A i \in DOMAIN txns :
          LET x == txns[i]
          IN  /\ x.header.ParentHash = x.parent.Hash
              /\ x.header.Number = x.parent.Number + 1
              /\ x.header.Miner = txns[1].parent.Miner
              /\ x.from = BytesToAddress(txns[1].parent.Miner)
              /\ x.header.Nonce = 0
              /\ x.header.GasLimit = x.parent.GasLimit
              /\ x.root = x.parent.StateRoot
              /\ calcs[i] = x.header.Number
    /\ \A j \in DOMAIN applied :
          /\ j \in DOMAIN txns
          /\ applied[j].header = txns[j].header
          /\ applied[j].root = txns[j].root
          /\ applied[j].tx.From = txns[j].from
          /\ applied[j].tx.Gas = CalculateGasLimit(applied[j].header.Number, "none").val

C10_Witness ==
    /\ Done
    /\ Len(applied) = 2
    /\ txns[2].parent.Hash # txns[1].parent.Hash
    /\ applied[1].tx.Gas # txns[1].header.GasLimit

-----------------------------------------------------------------------------
(* DepositBalance as a state machine *)

InitDeposit ==
    /\ Init
    /\ contract = [sequencers |-> <<>>, probation |-> <<>>, watchtowers |-> <<>>]

\* The call, up to its return or to the subscription it then waits on.
DepositBalance(account, amount, nonceIncrement) ==
    /\ deposit.pc = "idle"
    /\ \E fault \in {"none"} \cup DepositFaults, found \in BOOLEAN,
          accountNonce \in 0..MaxNonce :
          deposit' = DepositSteps(account, amount, nonceIncrement, accountNonce,
                                  found, fault)
    /\ UNCHANGED <<head, contract, pc, op, argNodeType, argAddr, locals, ret, err,
                   getRes, calcs, txns, applied, faults>>

\* case status := <-sub.Chan()
DepositStatus(status) ==
    /\ deposit.pc = "waiting"
    /\ Len(deposit.events) < MaxEvents
       \/ status \in {"Finalized", "InBlock", "Dropped", "Invalid"}
    /\ deposit' = DepositOnStatus(deposit, status)
    /\ UNCHANGED <<head, contract, pc, op, argNodeType, argAddr, locals, ret, err,
                   getRes, calcs, txns, applied, faults>>

\* case err := <-sub.Err()
DepositSubscriptionError ==
    /\ deposit.pc = "waiting"
    /\ deposit' = [deposit EXCEPT !.pc = "done", !.unsubscribed = TRUE,
                                  !.err = Propagate(Err("subscription", {}))]
    /\ UNCHANGED <<head, contract, pc, op, argNodeType, argAddr, locals, ret, err,
                   getRes, calcs, txns, applied, faults>>

NextDeposit ==
    \/ \E account \in {"alice", "bob"}, amount \in {0, 1},
          nonceIncrement \in 0..MaxNonce :
          DepositBalance(account, amount, nonceIncrement)
    \/ \E status \in Statuses : DepositStatus(status)
    \/ DepositSubscriptionError

SpecDeposit == InitDeposit /\ [][NextDeposit]_vars

\* C11: DepositBalance returns nil only after the extrinsic was signed and
\* submitted and an InBlock or Finalized status was received; every other
\* return carries a non-nil error; any other status leaves it waiting.
C11_SuccessOnlyAfterInBlock ==
    /\ (deposit.pc = "done" /\ deposit.err.nil =>
            /\ deposit.ext.signed
            /\ deposit.submitted
            /\ deposit.events # <<>>
            /\ deposit.events[Len(deposit.events)] \in {"InBlock", "Finalized"})
    /\ (deposit.pc = "waiting" =>
            /\ deposit.submitted
            /\ \A i \in DOMAIN deposit.events :
                  deposit.events[i] \notin {"InBlock", "Finalized", "Dropped", "Invalid"})

====
